---- MODULE Spec2Model ----
(***************************************************************************)
(* Games API (src/main.py): one table "game" keyed by name, six HTTP       *)
(* handlers over it.  The store is the SQLite table; a session is the      *)
(* per-request unit of work (identity map + flush on commit).              *)
(***************************************************************************)
EXTENDS Integers, Sequences, FiniteSets, TLC

\* ---------------------------------------------------------------- bounds
MaxOffset == 1        \* offsets are drawn from -1..MaxOffset
MaxSupplied == 2      \* a PATCH body carries at most MaxSupplied fields

\* ------------------------------------------------------- program constants
MaxLimit == 100       \* Query(le=100)

\* ---------------------------------------------------------------- values
None == <<>>
Some(v) == <<v>>

Fields == {"release_date", "studio", "ratings", "platforms"}

Names == {"a", "b"}
NameInputs == Names \cup {""}

Dates == {[year |-> 1995, month |-> 3, day |-> 11],
          [year |-> 2000, month |-> 12, day |-> 1]}
Studios == {"", "Square"}
Ratings == {0, 10}
PlatformLists == {<<>>, <<"SNES">>}

Opt(S) == {None} \cup {Some(v) : v \in S}

\* Attribute values of a model instance, one optional value per field.
Data == [release_date : Opt(Dates), studio : Opt(Studios),
         ratings : Opt(Ratings), platforms : Opt(PlatformLists)]

\* ------------------------------------------------------------ the schemas
\* GameBase: every field required; studio has min_length=1.
GameBase(d) ==
    /\ d.release_date # None
    /\ d.studio # None /\ d.studio[1] # ""
    /\ d.ratings # None
    /\ d.platforms # None

\* Game (table model): GameBase plus name with min_length=1.
Game(name, d) == name # "" /\ GameBase(d)

\* GamePublic / GameCreate: GameBase plus a plain str name.
GamePublic(name, d) == GameBase(d)
GameCreate(name, d) == GameBase(d)

\* GameUpdate: every field optional, defaulting to None, and declared
\* without the constraints of GameBase.  An instance is its attribute
\* values together with the set of fields the request body carried.
GameUpdate == {b \in [fields_set : SUBSET Fields, data : Data] :
                 \A f \in Fields \ b.fields_set : b.data[f] = None}

model_dump(b) == b.data
model_dump_exclude_unset_All(b) == b.data
model_dump_exclude_unset(b) == [f \in b.fields_set |-> b.data[f]]

sqlmodel_update(obj, data) ==
    [f \in DOMAIN obj |-> IF f \in DOMAIN data THEN data[f] ELSE obj[f]]

\* ---------------------------------------------------------- the SQL table
\* Column types: release_date DATE (ISO text, fixed width digits),
\* platforms JSON (Column(JSON), nullable), the others plain.
DateToText(d) == d.year * 10000 + d.month * 100 + d.day
TextToDate(t) == [year |-> t \div 10000, month |-> (t \div 100) % 100,
                  day |-> t % 100]

JsonDumps(v) == IF v = None THEN [null |-> TRUE, items |-> <<>>]
                ELSE [null |-> FALSE, items |-> v[1]]
JsonLoads_Falsy(j) == IF j.null \/ j.items = <<>> THEN None ELSE Some(j.items)
JsonLoads(j) == IF j.null THEN None ELSE Some(j.items)

\* Columns created NOT NULL: the required fields declared through Field();
\* platforms comes from the explicit Column(JSON), which is nullable.
NotNullColumns == {"release_date", "studio", "ratings"}

NotNullOk(d) == \A f \in NotNullColumns : d[f] # None

Encode(f, v) == CASE f = "release_date" -> DateToText(v[1])
                  [] f = "platforms" -> JsonDumps(v)
                  [] OTHER -> v[1]
Decode(f, c) == CASE f = "release_date" -> Some(TextToDate(c))
                  [] f = "platforms" -> JsonLoads(c)
                  [] OTHER -> Some(c)

ToRow(d) == [f \in Fields |-> Encode(f, d[f])]
FromRow(r) == [f \in Fields |-> Decode(f, r[f])]

Put(st, name, row) == [n \in DOMAIN st \cup {name} |->
                          IF n = name THEN row ELSE st[n]]
Remove(st, name) == [n \in DOMAIN st \ {name} |-> st[n]]

\* The outcome of a flush + commit: the error raised ("" for none) and the
\* table afterwards (unchanged on error: the transaction is rolled back).
Outcome(err, st) == [err |-> err, store |-> st]

\* session.get(Game, name): the loaded instance, or None.
session_get(st, name) == IF name \in DOMAIN st THEN Some(FromRow(st[name]))
                         ELSE None

Insert_Merge(st, name, d) ==
    IF ~NotNullOk(d) THEN Outcome("IntegrityError", st)
    ELSE Outcome("", Put(st, name, ToRow(d)))

\* session.add(new instance); session.commit(): INSERT.
Insert(st, name, d) ==
    IF name \in DOMAIN st \/ ~NotNullOk(d)
    THEN Outcome("IntegrityError", st)
    ELSE Outcome("", Put(st, name, ToRow(d)))

\* The columns the unit of work writes for a loaded instance: those whose
\* attribute differs from the value that was loaded.
Changed(loaded, obj) == {f \in Fields : obj[f] # loaded[f]}

\* session.add(loaded instance); session.commit(): UPDATE of the changed
\* columns WHERE name = ?, no statement when nothing changed.
Update(st, name, loaded, obj) ==
    LET cols == Changed(loaded, obj) IN
    IF cols = {} THEN Outcome("", st)
    ELSE IF name \notin DOMAIN st THEN Outcome("StaleDataError", st)
    ELSE IF \E f \in cols \cap NotNullColumns : obj[f] = None
    THEN Outcome("IntegrityError", st)
    ELSE Outcome("", Put(st, name,
            [f \in Fields |-> IF f \in cols THEN Encode(f, obj[f])
                              ELSE st[name][f]]))

Delete_Uncommitted(st, name) == Outcome("", st)

\* session.delete(loaded instance); session.commit(): DELETE WHERE name = ?
\* (a row already gone is a warning, not an error).
Delete(st, name) == Outcome("", Remove(st, name))

\* ----------------------------------------------------------- the responses
NoGames == <<>>
Public(name, d) == [name |-> name, data |-> d]
Response(op, name, status, games, ops) ==
    [op |-> op, name |-> name, status |-> status, games |-> games,
     storeOps |-> ops]
Result(st, resp) == [store |-> st, resp |-> resp]

\* response_model=GamePublic: the returned instance is validated again.
Respond(op, name, ok, d, ops) ==
    IF GamePublic(name, d) THEN Response(op, name, ok, <<Public(name, d)>>, ops)
    ELSE Response(op, name, 500, NoGames, ops)

\* session.refresh(game_db), then the response.  ops counts the session
\* calls the request has made (get, commit, refresh, exec).
Refresh(st, op, name, ok, ops) ==
    IF name \notin DOMAIN st THEN Response(op, name, 500, NoGames, ops + 1)
    ELSE Respond(op, name, ok, FromRow(st[name]), ops + 1)

\* ------------------------------------------------------------ the handlers
\* Each handler maps the table and its inputs to the table afterwards and
\* the response.

read_game(st, game_name) ==
    LET game_db == session_get(st, game_name) IN
    IF game_db = None
    THEN Result(st, Response("read", game_name, 404, NoGames, 1))
    ELSE Result(st, Respond("read", game_name, 200, game_db[1], 1))

create_game(st, name, d) ==
    IF ~GameCreate(name, d)
    THEN Result(st, Response("create", name, 422, NoGames, 0))
    ELSE IF ~Game(name, d)
    THEN Result(st, Response("create", name, 500, NoGames, 0))
    ELSE LET out == Insert(st, name, d) IN
         IF out.err # ""
         THEN Result(st, Response("create", name, 500, NoGames, 1))
         ELSE Result(out.store, Refresh(out.store, "create", name, 201, 1))

partial_update_game(st, game_name, game) ==
    LET game_db == session_get(st, game_name) IN
    IF game_db = None
    THEN Result(st, Response("patch", game_name, 404, NoGames, 1))
    ELSE LET game_data == model_dump_exclude_unset(game)
             out == Update(st, game_name, game_db[1],
                           sqlmodel_update(game_db[1], game_data))
         IN IF out.err # ""
            THEN Result(st, Response("patch", game_name, 500, NoGames, 2))
            ELSE Result(out.store,
                        Refresh(out.store, "patch", game_name, 200, 2))

update_game_Merge(st, game_name, game) ==
    partial_update_game(st, game_name, game)

update_game(st, game_name, game) ==
    LET game_db == session_get(st, game_name) IN
    IF game_db = None
    THEN Result(st, Response("put", game_name, 404, NoGames, 1))
    ELSE IF ~(GameCreate(game_name, model_dump(game))
              /\ Game(game_name, model_dump(game)))
    THEN Result(st, Response("put", game_name, 500, NoGames, 1))
    ELSE LET game_data == model_dump(game)
             out == Update(st, game_name, game_db[1],
                           sqlmodel_update(game_db[1], game_data))
         IN IF out.err # ""
            THEN Result(st, Response("put", game_name, 500, NoGames, 2))
            ELSE Result(out.store,
                        Refresh(out.store, "put", game_name, 200, 2))

delete_game_Idempotent(st, game_name) ==
    Result(Remove(st, game_name),
           Response("delete", game_name, 200, NoGames, 2))

delete_game(st, game_name) ==
    LET game_db == session_get(st, game_name) IN
    IF game_db = None
    THEN Result(st, Response("delete", game_name, 404, NoGames, 1))
    ELSE Result(Delete(st, game_name).store,
                Response("delete", game_name, 200,
                         <<Public(game_name, game_db[1])>>, 2))

\* select(Game).offset(offset).limit(limit) on SQLite: a negative LIMIT is
\* no limit, a negative OFFSET is 0; ord is the order the scan yields.
Min(a, b) == IF a < b THEN a ELSE b
Max(a, b) == IF a > b THEN a ELSE b
Orderings(S) == {s \in [1..Cardinality(S) -> S] :
                   \A i, j \in 1..Cardinality(S) : s[i] = s[j] => i = j}
Select(ord, offset, limit) ==
    LET first == Max(offset, 0) + 1
        end == IF limit < 0 THEN Len(ord)
               ELSE Min(Len(ord), Max(offset, 0) + limit)
    IN SubSeq(ord, first, end)

read_games_Unchecked(st, ord, offset, limit) ==
    LET names == Select(ord, offset, limit)
        games == [i \in 1..Len(names) |->
                    Public(names[i], FromRow(st[names[i]]))]
    IN Result(st, Response("list", "", 200, games, 1))

read_games(st, ord, offset, limit) ==
    IF limit > MaxLimit
    THEN Result(st, Response("list", "", 422, NoGames, 0))
    ELSE LET names == Select(ord, offset, limit)
             games == [i \in 1..Len(names) |->
                         Public(names[i], FromRow(st[names[i]]))]
         IN IF \A i \in 1..Len(games) : GamePublic(games[i].name, games[i].data)
            THEN Result(st, Response("list", "", 200, games, 1))
            ELSE Result(st, Response("list", "", 500, NoGames, 1))

\* ------------------------------------------------------------------ state
VARIABLES
    store,    \* the game table: name -> row
    last,     \* the response to the latest request
    deleted,  \* names deleted and not created again since
    tx,       \* per client, the request in flight (concurrent runs)
    store0    \* the table before the concurrent requests began
vars == <<store, last, deleted, tx, store0>>

Clients == {1, 2}
NoBody == [fields_set |-> {}, data |-> [f \in Fields |-> None]]
Request(op, name, body) == [op |-> op, name |-> name, body |-> body]
Idle == [pc |-> "idle", req |-> Request("none", "", NoBody), loaded |-> None,
         status |-> 0, ops |-> 0]

Init ==
    /\ store = <<>>
    /\ last = Response("none", "", 0, NoGames, 0)
    /\ deleted = {}
    /\ tx = [p \in Clients |-> Idle]
    /\ store0 = <<>>

\* ------------------------------------------------- requests, one at a time
FullData == {d \in Data : \A f \in Fields : d[f] # None}
Offsets == -1..MaxOffset
Limits == {-1, 0, 1, MaxLimit, MaxLimit + 1}

\* PUT reads the body through model_dump(), which does not tell a field left
\* out from a field sent as null: one body stands for both.
PutBodies == {b \in GameUpdate :
                b.fields_set = {f \in Fields : b.data[f] # None}}
PatchBodies == {b \in GameUpdate : Cardinality(b.fields_set) <= MaxSupplied}

Serve(res) ==
    /\ store' = res.store
    /\ last' = res.resp
    /\ deleted' = IF res.resp.op = "delete" /\ res.resp.status = 200
                  THEN deleted \cup {res.resp.name}
                  ELSE IF res.resp.op = "create" /\ res.resp.status = 201
                  THEN deleted \ {res.resp.name}
                  ELSE deleted
    /\ UNCHANGED <<tx, store0>>

ReadGames == \E offset \in Offsets, limit \in Limits :
             \E ord \in Orderings(DOMAIN store) :
                 Serve(read_games(store, ord, offset, limit))
ReadGame == \E n \in Names : Serve(read_game(store, n))
CreateGame == \E n \in NameInputs, d \in FullData :
                  Serve(create_game(store, n, d))
UpdateGame == \E n \in Names, b \in PutBodies :
                  Serve(update_game(store, n, b))
PartialUpdateGame == \E n \in Names, b \in PutBodies :
                         Serve(partial_update_game(store, n, b))
DeleteGame == \E n \in Names : Serve(delete_game(store, n))

Next == \/ ReadGames
        \/ ReadGame
        \/ CreateGame
        \/ UpdateGame
        \/ PartialUpdateGame
        \/ DeleteGame

Spec == Init /\ [][Next]_vars

\* ------------------------------------------- requests running concurrently
\* Each handler runs in its own session; between two session calls of one
\* request another request may run.  pc is the next session call to make;
\* one call (a SELECT, or a flush + COMMIT under SQLite's write lock) is
\* one step.
ConcName == "a"
ConcData == {d \in FullData : GameBase(d) /\ d.platforms = Some(<<"SNES">>)}
ConcStores == {<<>>} \cup {Put(<<>>, ConcName, ToRow(d)) : d \in ConcData}
FullBody(d) == [fields_set |-> Fields, data |-> d]
ConcPatchBodies == {b \in PatchBodies :
                      /\ Cardinality(b.fields_set) = 1
                      /\ b.fields_set \subseteq {"release_date", "ratings"}}
ConcRequests ==
    {Request("create", ConcName, FullBody(d)) : d \in ConcData}
    \cup {Request("put", ConcName, FullBody(d)) : d \in ConcData}
    \cup {Request("put", ConcName, NoBody)}
    \cup {Request("patch", ConcName, b) : b \in ConcPatchBodies}
    \cup {Request("delete", ConcName, NoBody), Request("read", ConcName, NoBody)}

InitConc ==
    /\ store0 \in ConcStores
    /\ store = store0
    /\ last = Response("none", "", 0, NoGames, 0)
    /\ deleted = {}
    /\ tx = [p \in Clients |-> Idle]

Done(t, status, ops) == [t EXCEPT !.pc = "done", !.status = status, !.ops = ops]

\* The request arrives; create_game validates its body and goes straight to
\* its commit, every other handler starts with session.get.
Begin(p, req) ==
    /\ tx[p].pc = "idle"
    /\ tx' = [tx EXCEPT ![p] =
         IF req.op # "create"
         THEN [Idle EXCEPT !.pc = "get", !.req = req]
         ELSE IF GameCreate(req.name, req.body.data) /\ Game(req.name, req.body.data)
         THEN [Idle EXCEPT !.pc = "commit", !.req = req]
         ELSE Done([Idle EXCEPT !.req = req], 500, 0)]
    /\ UNCHANGED <<store, last, deleted, store0>>

\* game_db = session.get(Game, game_name), and what the handler does with it
\* before its next session call.
Get(p) ==
    LET t == tx[p]
        game_db == session_get(store, t.req.name)
    IN
    /\ t.pc = "get"
    /\ tx' = [tx EXCEPT ![p] =
         IF game_db = None THEN Done(t, 404, 1)
         ELSE IF t.req.op = "read"
         THEN Done(t, Respond("read", t.req.name, 200, game_db[1], 1).status, 1)
         ELSE IF t.req.op = "put"
                 /\ ~(GameCreate(t.req.name, model_dump(t.req.body))
                      /\ Game(t.req.name, model_dump(t.req.body)))
         THEN Done(t, 500, 1)
         ELSE [t EXCEPT !.pc = "commit", !.loaded = game_db, !.ops = 1]]
    /\ UNCHANGED <<store, last, deleted, store0>>

\* session.add / session.delete, then session.commit().
Commit(p) ==
    LET t == tx[p]
        n == t.req.name
        out == CASE t.req.op = "create" -> Insert(store, n, t.req.body.data)
                 [] t.req.op = "put" ->
                      Update(store, n, t.loaded[1],
                             sqlmodel_update(t.loaded[1], model_dump(t.req.body)))
                 [] t.req.op = "patch" ->
                      Update(store, n, t.loaded[1],
                             sqlmodel_update(t.loaded[1],
                                             model_dump_exclude_unset(t.req.body)))
                 [] t.req.op = "delete" -> Delete(store, n)
    IN
    /\ t.pc = "commit"
    /\ store' = out.store
    /\ tx' = [tx EXCEPT ![p] =
         IF out.err # "" THEN Done(t, 500, t.ops + 1)
         ELSE IF t.req.op = "delete" THEN Done(t, 200, t.ops + 1)
         ELSE [t EXCEPT !.pc = "refresh", !.ops = t.ops + 1]]
    /\ UNCHANGED <<last, deleted, store0>>

\* session.refresh(game_db) and the response.
RefreshStep(p) ==
    LET t == tx[p]
        ok == IF t.req.op = "create" THEN 201 ELSE 200
    IN
    /\ t.pc = "refresh"
    /\ tx' = [tx EXCEPT ![p] =
         Done(t, Refresh(store, t.req.op, t.req.name, ok, t.ops).status,
              t.ops + 1)]
    /\ UNCHANGED <<store, last, deleted, store0>>

NextConc == \/ \E p \in Clients, req \in ConcRequests : Begin(p, req)
            \/ \E p \in Clients : Get(p)
            \/ \E p \in Clients : Commit(p)
            \/ \E p \in Clients : RefreshStep(p)

SpecConc == InitConc /\ [][NextConc]_vars

\* The table after running a request alone, as its handler does.
Apply(st, req) ==
    CASE req.op = "create" -> create_game(st, req.name, req.body.data).store
      [] req.op = "put" -> update_game(st, req.name, req.body).store
      [] req.op = "patch" -> partial_update_game(st, req.name, req.body).store
      [] req.op = "delete" -> delete_game(st, req.name).store
      [] OTHER -> st

RECURSIVE ApplyAll(_, _, _)
ApplyAll(st, order, i) ==
    IF i > Len(order) THEN st
    ELSE ApplyAll(Apply(st, tx[order[i]].req), order, i + 1)

AllDone == \A p \in Clients : tx[p].pc = "done"
Succeeded == {p \in Clients : tx[p].status \in {200, 201}}
SerialOutcomes == {ApplyAll(store0, order, 1) : order \in Orderings(Succeeded)}

\* ------------------------------------------------------------- properties
Present == DOMAIN store
Absent == Names \ DOMAIN store
Committed(r) == r.resp.storeOps = 3

\* C1: create_game with a name already in the store is rejected: the
\* response is not 201, and the table (the row count for that name and the
\* existing row's fields) is what it was, whatever requests came before.
C1_DuplicateCreateRejected ==
    /\ \A n \in Present, d \in FullData :
          LET r == create_game(store, n, d) IN
          /\ r.resp.status # 201
          /\ r.store = store
    /\ (last.op = "create" /\ last.status = 201) =>
          /\ last.name \in Present
          /\ last.games = <<Public(last.name, FromRow(store[last.name]))>>
C1_Witness ==
    /\ last.op = "create" /\ last.status = 500 /\ last.storeOps = 1
    /\ last.name \in Present

C4_PutReplaces ==
    \A n \in Present, b \in PutBodies :
       LET r == update_game(store, n, b) IN
       /\ r.resp.status = 200 =>
             /\ \A f \in Fields : b.data[f] # None
             /\ DOMAIN r.store = DOMAIN store
             /\ FromRow(r.store[n]) = b.data
             /\ r.resp.games = <<Public(n, b.data)>>
       /\ r.resp.status # 200 => r.store = store
       /\ GameBase(b.data) => r.resp.status = 200
       /\ \A m \in Present \ {n} : r.store[m] = store[m]
C4_Witness ==
    /\ last.op = "put" /\ last.status = 200
    /\ last.name \in Present
    /\ last.games = <<Public(last.name, FromRow(store[last.name]))>>

\* C5: every stored game has a non-empty name, a non-null release_date,
\* studio, ratings and platforms, and a non-empty studio.
C5_StoredRowsValid ==
    \A n \in Present : Game(n, FromRow(store[n]))

\* C6: after a successful delete_game, read_game for that name answers 404
\* until a create_game for it succeeds; the delete removes that row only.
C6_DeleteThenGet ==
    /\ \A n \in deleted : read_game(store, n).resp.status = 404
    /\ (last.op = "read" /\ last.name \in deleted) => last.status = 404
    /\ \A n \in Present :
          LET r == delete_game(store, n) IN
          /\ r.resp.status = 200
          /\ DOMAIN r.store = DOMAIN store \ {n}
          /\ \A m \in DOMAIN r.store : r.store[m] = store[m]
          /\ read_game(r.store, n).resp.status = 404
C6_Witness ==
    /\ last.op = "read" /\ last.name \in deleted /\ last.status = 404

\* C7: read_game, update_game, partial_update_game and delete_game on a name
\* that is not in the store answer 404 and leave the store as it was.
C7_NotFound ==
    /\ \A n \in Absent :
          /\ read_game(store, n) =
                Result(store, Response("read", n, 404, NoGames, 1))
          /\ delete_game(store, n) =
                Result(store, Response("delete", n, 404, NoGames, 1))
          /\ \A b \in PutBodies :
                update_game(store, n, b) =
                   Result(store, Response("put", n, 404, NoGames, 1))
          /\ \A b \in PatchBodies :
                partial_update_game(store, n, b) =
                   Result(store, Response("patch", n, 404, NoGames, 1))
    /\ last.status = 404 =>
          last.op \in {"read", "put", "patch", "delete"} /\ last.name \in Absent
C7_Witness ==
    /\ last.op = "delete" /\ last.status = 404 /\ last.name \in Absent
    /\ Present # {}

\* C8: an accepted read_games returns at most limit games and never more
\* than 100, whatever offset and limit are; a limit below zero is read here
\* as allowing no game at all.
C8_ListBoundedByLimit ==
    [][\A offset \in Offsets, limit \in Limits :
        \A ord \in Orderings(DOMAIN store) :
          (/\ store' = store
           /\ last' = read_games(store, ord, offset, limit).resp
           /\ last'.status = 200)
          => /\ Len(last'.games) <= Max(limit, 0)
             /\ Len(last'.games) <= MaxLimit]_vars

\* C9: read_games with limit above 100 is rejected by validation: the answer
\* is 422, no session call is made and the store is as it was.
C9_LimitValidated ==
    /\ \A offset \in Offsets, limit \in Limits :
          \A ord \in Orderings(DOMAIN store) :
             limit > 100 =>
               read_games(store, ord, offset, limit) =
                  Result(store, Response("list", "", 422, NoGames, 0))
    /\ (last.op = "list" /\ last.status = 422) => last.storeOps = 0
    /\ (last.op = "list" /\ last.status # 422) => last.storeOps = 1
C9_Witness ==
    last.op = "list" /\ last.status = 422 /\ Present # {}

\* C10: requests are atomic per row under concurrency: when the concurrent
\* requests have all answered, the table is what running the successful ones
\* one after another, in some order, leaves; after two successful PUTs on one
\* game the row is one of the two payloads in full; and a successful PUT or
\* PATCH leaves its game present unless a DELETE succeeded too.
C10_SeriallyEquivalent ==
    AllDone =>
      /\ store \in SerialOutcomes
      /\ \A p, q \in Succeeded :
            (/\ p # q
             /\ tx[p].req.op = "put" /\ tx[q].req.op = "put"
             /\ tx[p].req.name = tx[q].req.name)
            => /\ tx[p].req.name \in DOMAIN store
               /\ FromRow(store[tx[p].req.name]) \in
                     {tx[p].req.body.data, tx[q].req.body.data}
      /\ \A p \in Succeeded :
            (/\ tx[p].req.op \in {"put", "patch"}
             /\ tx[p].req.name \notin DOMAIN store)
            => \E q \in Succeeded : tx[q].req.op = "delete"

====
